---- MODULE Spec2Model ----
(***************************************************************************)
(* State-machine model of accounting_bot.py: the per-user conversation     *)
(* (ConversationHandler state + context.user_data), the two tables         *)
(* (transactions, debts) and the handlers that act on them.                *)
(*                                                                         *)
(* Texts are sequences of symbols.  An ASCII character is a one-character  *)
(* string; a Persian word or an emoji is written as one symbol (SANY reads *)
(* ASCII only).  str.lower(), str.strip(), str.replace(',', '') and the    *)
(* Decimal()/int() parsers act on ASCII characters only, so a caseless     *)
(* non-ASCII word behaves as one opaque symbol under all of them.          *)
(*   "laghv" = لغو      "bale" = بله      "kheyr" = خیر                    *)
(*   "[x]" = ❌   "[ok]" = ✅   "[skip]" = ⏭️   "rad-kardan" = رد کردن      *)
(* Amounts are integers counted in thousandths of a Toman, so that a       *)
(* Decimal with up to three fractional digits is represented exactly.      *)
(***************************************************************************)
EXTENDS Integers, Sequences, FiniteSets, TLC

(***************************************************************************)
(* Bounds of the model                                                     *)
(***************************************************************************)
\* rows the transactions table may hold before the model stops adding
MaxTx == 2
\* rows the debts table may hold before the model stops adding
MaxDebts == 2
\* the largest row id either table hands out before the model stops adding
MaxId == 3
\* Telegram user ids that send updates
Users == {1, 2}
\* the letters and digits generate_debtor_id samples, cut down from
\* string.ascii_lowercase and randint(1, 9)
GenLetters == {"a", "b"}
GenDigits == {"4"}

(***************************************************************************)
(* Conversation states (line 72) and ConversationHandler.END.  END also    *)
(* stands for "no conversation" (Idle): the handler drops the key.         *)
(***************************************************************************)
AMOUNT == 0
DESCRIPTION == 1
CONFIRM == 2
DEBTOR_NAME == 3
DEBT_AMOUNT == 4
DEBT_DESCRIPTION == 5
DEBT_CONFIRM == 6
DELETE_DEBT == 7
END == -1
ActiveStates == {AMOUNT, DESCRIPTION, CONFIRM, DEBTOR_NAME, DEBT_AMOUNT,
                 DEBT_DESCRIPTION, DEBT_CONFIRM, DELETE_DEBT}

(***************************************************************************)
(* Characters                                                              *)
(***************************************************************************)
Digits == <<"0", "1", "2", "3", "4", "5", "6", "7", "8", "9">>
DigitSet == {Digits[i] : i \in 1..10}
DigitVal(c) == (CHOOSE i \in 1..10 : Digits[i] = c) - 1
Upper == <<"A", "B", "C", "D", "E", "F", "G", "H", "I", "J", "K", "L", "M",
           "N", "O", "P", "Q", "R", "S", "T", "U", "V", "W", "X", "Y", "Z">>
Lower == <<"a", "b", "c", "d", "e", "f", "g", "h", "i", "j", "k", "l", "m",
           "n", "o", "p", "q", "r", "s", "t", "u", "v", "w", "x", "y", "z">>
UpperSet == {Upper[i] : i \in 1..26}
LowerSet == {Lower[i] : i \in 1..26}

\* str.lower() on one character
LowerChar(c) == IF c \in UpperSet THEN Lower[CHOOSE i \in 1..26 : Upper[i] = c] ELSE c
\* str.lower()
StrLower(s) == [i \in 1..Len(s) |-> LowerChar(s[i])]
\* str.replace(',', '')
RemoveCommas(s) == SelectSeq(s, LAMBDA c : c # ",")

RECURSIVE LStrip(_)
LStrip(s) == IF s # <<>> /\ Head(s) = " " THEN LStrip(Tail(s)) ELSE s
RECURSIVE RStrip(_)
RStrip(s) == IF s # <<>> /\ s[Len(s)] = " " THEN RStrip(SubSeq(s, 1, Len(s) - 1)) ELSE s
\* str.strip()
StrStrip(s) == RStrip(LStrip(s))

\* str.split(): the words between runs of spaces
RECURSIVE SplitFrom(_, _, _)
SplitFrom(s, cur, acc) ==
    IF s = <<>> THEN (IF cur = <<>> THEN acc ELSE Append(acc, cur))
    ELSE IF Head(s) = " "
         THEN SplitFrom(Tail(s), <<>>, IF cur = <<>> THEN acc ELSE Append(acc, cur))
         ELSE SplitFrom(Tail(s), Append(cur, Head(s)), acc)
StrSplit(s) == SplitFrom(s, <<>>, <<>>)

AllDigits(s) == \A i \in 1..Len(s) : s[i] \in DigitSet
RECURSIVE DigitsValue(_, _)
DigitsValue(s, acc) ==
    IF s = <<>> THEN acc ELSE DigitsValue(Tail(s), 10 * acc + DigitVal(Head(s)))

RECURSIVE Pow10(_)
Pow10(n) == IF n = 0 THEN 1 ELSE 10 * Pow10(n - 1)

(***************************************************************************)
(* Decimal(str): surrounding whitespace is ignored, then an optional sign, *)
(* then digits with at most one "." and at least one digit.  ok = FALSE is *)
(* decimal.InvalidOperation.  val is the value in thousandths; texts of    *)
(* the model carry at most three fractional digits.  (Exponents, "inf"     *)
(* and "nan" are outside the texts the model sends.)                       *)
(***************************************************************************)
DecimalOf(str) ==
    LET s    == StrStrip(str)
        neg  == s # <<>> /\ Head(s) = "-"
        body == IF s # <<>> /\ Head(s) \in {"-", "+"} THEN Tail(s) ELSE s
        dots == {i \in 1..Len(body) : body[i] = "."}
        dot  == IF dots = {} THEN Len(body) + 1 ELSE CHOOSE i \in dots : TRUE
        ip   == SubSeq(body, 1, dot - 1)
        fp   == SubSeq(body, dot + 1, Len(body))
        ok   == /\ Cardinality(dots) <= 1
                /\ AllDigits(ip) /\ AllDigits(fp)
                /\ Len(ip) + Len(fp) >= 1
                /\ Len(fp) <= 3
        mag  == DigitsValue(ip, 0) * 1000 + DigitsValue(fp, 0) * Pow10(3 - Len(fp))
    IN  IF ok THEN [ok |-> TRUE, val |-> IF neg THEN 0 - mag ELSE mag]
        ELSE [ok |-> FALSE, val |-> 0]

\* the digits of 2^63 - 1 and of 2^63, the bounds of an SQLite INTEGER
MaxInt64 == <<"9", "2", "2", "3", "3", "7", "2", "0", "3", "6",
              "8", "5", "4", "7", "7", "5", "8", "0", "7">>
MinInt64 == <<"9", "2", "2", "3", "3", "7", "2", "0", "3", "6",
              "8", "5", "4", "7", "7", "5", "8", "0", "8">>
RECURSIVE StripZeros(_)
StripZeros(ds) == IF Len(ds) > 1 /\ Head(ds) = "0" THEN StripZeros(Tail(ds)) ELSE ds
\* a <= b for two digit sequences without leading zeros
DigitsLeq(a, b) ==
    \/ Len(a) < Len(b)
    \/ /\ Len(a) = Len(b)
       /\ \A i \in 1..Len(a) :
             (\A j \in 1..(i - 1) : a[j] = b[j]) => DigitVal(a[i]) <= DigitVal(b[i])

(***************************************************************************)
(* int(str) as used on a command argument: optional sign and digits;       *)
(* ok = FALSE is ValueError.  Python's int is unbounded; fits says that    *)
(* the number is one SQLite can bind as a parameter (64 bits), otherwise   *)
(* the query raises OverflowError.  A number of more than nine digits is   *)
(* held by its leading nine digits: like the number itself it exceeds      *)
(* every id of the model.  (Underscores and non-ASCII digits, which int    *)
(* also accepts, are outside the texts the model sends.)                   *)
(***************************************************************************)
IntOf(str) ==
    LET s    == StrStrip(str)
        neg  == s # <<>> /\ Head(s) = "-"
        body == IF s # <<>> /\ Head(s) \in {"-", "+"} THEN Tail(s) ELSE s
        ok   == body # <<>> /\ AllDigits(body)
        ds   == StripZeros(body)
        mag  == IF Len(ds) <= 9 THEN DigitsValue(ds, 0)
                ELSE DigitsValue(SubSeq(ds, 1, 9), 0)
    IN  IF ok THEN [ok |-> TRUE, val |-> IF neg THEN 0 - mag ELSE mag,
                    fits |-> DigitsLeq(ds, IF neg THEN MinInt64 ELSE MaxInt64)]
        ELSE [ok |-> FALSE, val |-> 0, fits |-> TRUE]

\* int(amount): truncation toward zero of a Decimal held in thousandths
IntTrunc(a) == IF a >= 0 THEN a \div 1000 ELSE 0 - ((0 - a) \div 1000)

RECURSIVE NatToChars(_)
NatToChars(n) == IF n < 10 THEN <<Digits[n + 1]>>
                 ELSE Append(NatToChars(n \div 10), Digits[(n % 10) + 1])
\* f"{n:,}" on the digits of a natural number
RECURSIVE Group3(_)
Group3(ds) == IF Len(ds) <= 3 THEN ds
              ELSE Group3(SubSeq(ds, 1, Len(ds) - 3)) \o <<",">> \o SubSeq(ds, Len(ds) - 2, Len(ds))
\* format_currency: int(amount), comma-grouped, followed by the unit
format_currency(a) ==
    LET n == IntTrunc(a)
        d == Group3(NatToChars(IF n < 0 THEN 0 - n ELSE n))
    IN  (IF n < 0 THEN <<"-">> ELSE <<>>) \o d \o <<" ", "toman">>

(***************************************************************************)
(* Texts the users send.  A handler of a free-text step (description,      *)
(* name) treats every text that is not a token alike, so the model sends   *)
(* a few representatives there; see Inputs.                                *)
(***************************************************************************)
TCancelCmd == <<"/", "c", "a", "n", "c", "e", "l">>
TCancelCmdUpper == <<"/", "C", "A", "N", "C", "E", "L">>
TCancelWord == <<"c", "a", "n", "c", "e", "l">>
TCancelCaps == <<"C", "a", "n", "c", "e", "l">>
TLaghv == <<"laghv">>
TCancelButton == <<"[x]", " ", "laghv">>
TBale == <<"bale">>
TYes == <<"y", "e", "s">>
TYesCaps == <<"Y", "E", "S">>
TY == <<"y">>
TYesButton == <<"[ok]", " ", "bale">>
TNoButton == <<"[x]", " ", "kheyr">>
TSkipButton == <<"[skip]", " ", "rad-kardan">>
TSkipWord == <<"s", "k", "i", "p">>
TAbc == <<"a", "b", "c">>
TZero == <<"0">>
TMinus5 == <<"-", "5">>
T20000 == <<"2", "0", "0", "0", "0">>
T1500 == <<"1", ",", "5", "0", "0">>
TBig == MinInt64
TSalary == <<"s", "a", "l", "a", "r", "y">>
TAlice == <<"A", "l", "i", "c", "e">>
TLoan == <<"l", "o", "a", "n">>
\* the menu buttons (lines 146-149, 166-168, 175-177)
LIncome == <<"[moneybag]", " ", "sabt", " ", "daramad">>
LExpense == <<"[moneywings]", " ", "sabt", " ", "hazineh">>
LSummary == <<"[chart]", " ", "gozaresh", " ", "mali">>
LEdit == <<"[pencil]", " ", "virayesh">>
LDebtors == <<"[people]", " ", "bedehkaran">>
LAddDebt == <<"[plus]", " ", "sabt", " ", "bedehi">>
LDeleteDebt == <<"[bin]", " ", "hazf", " ", "bedehi">>
LDebtList == <<"[clipboard]", " ", "list", " ", "bedehi-ha">>
LBack == <<"[back]", " ", "bazgasht", " ", "be", " ", "meno">>
LEditTransaction == <<"[pencil]", " ", "virayesh", " ", "tarakonesh">>
LDeleteTransaction == <<"[bin]", " ", "hazf", " ", "tarakonesh">>
LDeleteAll == <<"[bin]", " ", "hazf", " ", "hameh">>
\* slash commands
CmdStart == <<"/", "s", "t", "a", "r", "t">>
CmdEditTr == <<"/", "e", "d", "i", "t", "_", "t", "r">>
CmdDelTr == <<"/", "d", "e", "l", "_", "t", "r">>
CmdDelAllTr == <<"/", "d", "e", "l", "_", "a", "l", "l", "_", "t", "r">>
CmdDebtList == <<"/", "d", "e", "b", "t", "_", "l", "i", "s", "t">>
WithArg(cmd, arg) == cmd \o <<" ">> \o arg

\* the debtor codes generate_debtor_id can return in the model
Codes == {<<l, d1, d2>> : l \in GenLetters, d1 \in GenDigits, d2 \in GenDigits}
\* the value of a nullable column that holds NULL / Python's None
None == <<"<None>">>

CancelTexts == {TCancelWord, TCancelCaps, TLaghv, TCancelButton}
AmountTexts == {TAbc, TZero, TMinus5, T20000, T1500}
IdArgs == {NatToChars(i) : i \in 1..MaxId} \cup {TAbc}
Commands == {CmdStart, CmdEditTr, CmdDelTr, CmdDelAllTr, CmdDebtList,
             TCancelCmd, TCancelCmdUpper}
            \cup {WithArg(CmdDelTr, a) : a \in IdArgs}
            \cup {WithArg(CmdEditTr, a) : a \in IdArgs}
MenuLabels == {LIncome, LExpense, LSummary, LEdit, LDebtors, LAddDebt,
               LDeleteDebt, LDebtList, LBack, LEditTransaction,
               LDeleteTransaction, LDeleteAll}

\* what the model sends to a user's conversation in state s
Inputs(s) ==
    Commands \cup
    CASE s = END -> MenuLabels \cup {TSalary}
      [] s \in {AMOUNT, DEBT_AMOUNT} -> CancelTexts \cup AmountTexts \cup {LExpense}
      [] s = DESCRIPTION -> CancelTexts \cup {TSalary, LIncome}
      [] s \in {CONFIRM, DEBT_CONFIRM} ->
            {TBale, TYes, TYesCaps, TY, TYesButton, TNoButton, TCancelWord, TSalary}
      [] s = DEBTOR_NAME -> CancelTexts \cup {TAlice, LAddDebt}
      [] s = DEBT_DESCRIPTION -> CancelTexts \cup {TSkipButton, TSkipWord, TLoan}
      [] s = DELETE_DEBT -> CancelTexts \cup Codes \cup
                            {<<" ">> \o c \o <<" ">> : c \in Codes} \cup {TAbc}

(***************************************************************************)
(* State                                                                   *)
(***************************************************************************)
VARIABLES
    state,         \* ConversationHandler: user -> state, END when none
    user_data,     \* context.user_data: user -> dict (a function on its keys)
    transactions,  \* accounting.db, table transactions: a set of rows
    debts,         \* debt.db, table debts: a set of rows
    reply,         \* what the handler of the last update sent
    flow,          \* per user: the texts sent in the running flow, by state
    loop           \* generate_debtor_id: where a running call stands

vars == <<state, user_data, transactions, debts, reply, flow, loop>>

\* a dict as a function on its keys
EmptyDict == <<>>
\* the assignment as it would be with dict.setdefault: a key once set keeps its value
DictSetDefault(d, k, v) == [x \in DOMAIN d \cup {k} |-> IF x \in DOMAIN d THEN d[x] ELSE v]
DictSet(d, k, v) == [x \in DOMAIN d \cup {k} |-> IF x = k THEN v ELSE d[x]]
Has(d, k) == k \in DOMAIN d
\* context.user_data.get(k, default)
DictGet(d, k, default) == IF k \in DOMAIN d THEN d[k] ELSE default

NoData == [none |-> TRUE]
Reply(u, kind, menu, data) == [to |-> u, kind |-> kind, menu |-> menu, data |-> data]
\* an exception left the handler: the Application logs it, nothing is sent
Escaped(u, error) == Reply(u, "exception", "none", [error |-> error])

\* what a handler did: the state it returned (the current one when it
\* returned None or raised), the user's dict, the tables, the reply
Outcome(next, ud, tx, db, rep) ==
    [next |-> next, ud |-> ud, tx |-> tx, debts |-> db, reply |-> rep]

\* no call of generate_debtor_id is running
LoopIdle == [pc |-> "idle", user |-> 0, text |-> <<>>, existing_ids |-> {},
             new_id |-> <<>>]

Init ==
    /\ loop = LoopIdle
    /\ state = [u \in Users |-> END]
    /\ user_data = [u \in Users |-> EmptyDict]
    /\ transactions = {}
    /\ debts = {}
    /\ reply = Reply(0, "none", "none", NoData)
    /\ flow = [u \in Users |-> [sent |-> EmptyDict, code |-> <<>>]]

(***************************************************************************)
(* The tables.  A row's id is SQLite's rowid: one more than the largest    *)
(* id in the table.  The date column (utcnow at insert) is left out: no    *)
(* handler decides anything on it.                                         *)
(***************************************************************************)
SetMax(S) == CHOOSE x \in S : \A y \in S : y <= x
NextId(rows) == IF rows = {} THEN 1 ELSE SetMax({r.id : r \in rows}) + 1

RECURSIVE SetSum(_)
SetSum(S) == IF S = {} THEN 0
             ELSE LET x == CHOOSE y \in S : TRUE IN x[2] + SetSum(S \ {x})

(***************************************************************************)
(* Numeric(10, 2) read back through the ORM on SQLite: the stored float is *)
(* formatted with "%.2f", i.e. rounded to hundredths.  An amount exactly   *)
(* halfway between two hundredths is rounded as its binary float falls;    *)
(* the model sends no such amount.                                         *)
(***************************************************************************)
NumericRead(a) == LET q == a \div 10
                      r == a % 10
                  IN  IF r >= 5 THEN (q + 1) * 10 ELSE q * 10

\* the literal lists of lines 231 and 290
CancelList == {<<"/", "c", "a", "n", "c", "e", "l">>, <<"laghv">>,
               <<"c", "a", "n", "c", "e", "l">>, <<"[x]", " ", "laghv">>}
AffirmativeList == {<<"bale">>, <<"y", "e", "s">>, <<"y">>, <<"[ok]", " ", "bale">>}
SkipList == {<<"[skip]", " ", "rad-kardan">>, <<"rad-kardan">>, <<"s", "k", "i", "p">>}

IsCancel(text) == StrLower(text) \in CancelList
\* the affirmative test as it would be without .lower()
IsAffirmativeCaseSensitive(text) == text \in AffirmativeList
IsAffirmative(text) == StrLower(text) \in AffirmativeList

(***************************************************************************)
(* filters.COMMAND: the text starts with a bot command; CommandHandler     *)
(* compares the lowered command name and passes text.split()[1:] as args.  *)
(***************************************************************************)
IsCommand(text) == Len(text) >= 2 /\ Head(text) = "/" /\ text[2] # " "
CommandName(text) == StrLower(Tail(Head(StrSplit(text))))
CommandArgs(text) == Tail(StrSplit(text))
IsCmd(text, cmd) == IsCommand(text) /\ CommandName(text) = Tail(cmd)

(***************************************************************************)
(* generate_debtor_id: the codes the loop can return, i.e. a letter and    *)
(* two digits not among the debtor_id values read at the start.            *)
(***************************************************************************)
existing_ids == {d.debtor_id : d \in debts}
\* the codes the loop could return if it did not look at existing_ids
generate_debtor_id_unchecked == Codes
generate_debtor_id == {c \in Codes : c \notin existing_ids}

(***************************************************************************)
(* Handlers.  Each gives the Outcome of one update from user u in          *)
(* conversation state s; fault says the store raises when it is used.      *)
(***************************************************************************)
Same(u, rep) == Outcome(state[u], user_data[u], transactions, debts, rep)
To(u, next, ud, rep) == Outcome(next, ud, transactions, debts, rep)

start(u) == Same(u, Reply(u, "welcome", "main", NoData))

\* the query as it would be without filter_by(user_id=...)
UserTxUnfiltered(u) == transactions
UserTx(u) == {t \in transactions : t.user_id = u}
UserDebts(u) == {d \in debts : d.user_id = u}

\* ids of the rows summary lists: the last five of the user's rows, newest first
RECURSIVE Descending(_)
Descending(S) == IF S = {} THEN <<>>
                 ELSE <<SetMax(S)>> \o Descending(S \ {SetMax(S)})
Recent(u) == LET ids == Descending({t.id : t \in UserTx(u)})
             IN  SubSeq(ids, 1, IF Len(ids) < 5 THEN Len(ids) ELSE 5)

summary(u, fault) ==
    IF fault THEN Same(u, Escaped(u, "OperationalError"))
    ELSE IF UserTx(u) = {} THEN Same(u, Reply(u, "no_transactions", "main", NoData))
    ELSE LET total_income == SetSum({<<t.id, NumericRead(t.amount)>> :
                                       t \in {x \in UserTx(u) : x.is_income}})
             total_expenses == SetSum({<<t.id, NumericRead(t.amount)>> :
                                       t \in {x \in UserTx(u) : ~x.is_income}})
             balance == total_income - total_expenses
         IN  Same(u, Reply(u, "summary", "main",
                  [total_income |-> format_currency(total_income),
                   total_expenses |-> format_currency(total_expenses),
                   balance |-> format_currency(balance),
                   recent |-> Recent(u)]))

debt_list(u, fault) ==
    IF fault THEN Same(u, Escaped(u, "OperationalError"))
    ELSE IF UserDebts(u) = {} THEN Same(u, Reply(u, "no_debts", "debtors", NoData))
    ELSE LET total_debt == SetSum({<<d.id, NumericRead(d.amount)>> : d \in UserDebts(u)})
         IN  Same(u, Reply(u, "debt_list", "debtors",
                  [total_debt |-> format_currency(total_debt),
                   codes |-> {d.debtor_id : d \in UserDebts(u)}]))

\* a handler that returns a value ends or moves the conversation; summary and
\* debt_list raising inside handle_command leaves it where it was
EndAfter(u, o) == IF o.reply.kind = "exception" THEN o
                  ELSE Outcome(END, o.ud, o.tx, o.debts, o.reply)

handle_command(u, command, fault) ==
    CASE command = LIncome ->
            To(u, AMOUNT, DictSet(user_data[u], "is_income", TRUE),
               Reply(u, "ask_income_amount", "cancel", NoData))
      [] command = LExpense ->
            To(u, AMOUNT, DictSet(user_data[u], "is_income", FALSE),
               Reply(u, "ask_expense_amount", "cancel", NoData))
      [] command = LSummary -> EndAfter(u, summary(u, fault))
      [] command = LEdit -> To(u, END, user_data[u], Reply(u, "menu", "edit", NoData))
      [] command = LDebtors -> To(u, END, user_data[u], Reply(u, "menu", "debtors", NoData))
      [] command = LAddDebt ->
            To(u, DEBTOR_NAME, user_data[u], Reply(u, "ask_debtor_name", "cancel", NoData))
      [] command = LDeleteDebt ->
            To(u, DELETE_DEBT, user_data[u], Reply(u, "ask_debt_code", "cancel", NoData))
      [] command = LDebtList -> EndAfter(u, debt_list(u, fault))
      [] command = LBack -> To(u, END, user_data[u], Reply(u, "menu", "main", NoData))
      [] OTHER -> To(u, END, user_data[u], Reply(u, "menu", "main", NoData))

(***************************************************************************)
(* process_amount / process_debt_amount.  Decimal() of a text that is no   *)
(* number raises decimal.InvalidOperation, an ArithmeticError: the         *)
(* handler's "except ValueError" does not catch it, so it leaves the       *)
(* handler; only the handler's own ValueError (amount <= 0) is caught.     *)
(***************************************************************************)
process_amount(u, text) ==
    IF IsCancel(text)
    THEN To(u, END, user_data[u], Reply(u, "cancelled", "main", NoData))
    ELSE LET amount == DecimalOf(RemoveCommas(text))
         IN  IF ~amount.ok THEN Same(u, Escaped(u, "InvalidOperation"))
             ELSE IF amount.val <= 0
             THEN To(u, AMOUNT, user_data[u], Reply(u, "invalid_number", "cancel", NoData))
             ELSE To(u, DESCRIPTION,
                     DictSet(DictSet(user_data[u], "amount", amount.val), "is_income",
                             DictGet(user_data[u], "is_income", TRUE)),
                     Reply(u, "ask_description", "cancel", NoData))

process_description(u, text) ==
    IF IsCancel(text)
    THEN To(u, END, user_data[u], Reply(u, "cancelled", "main", NoData))
    ELSE To(u, CONFIRM, DictSet(user_data[u], "description", text),
            Reply(u, "confirm_transaction", "yesno",
                  [is_income |-> user_data[u]["is_income"],
                   amount |-> format_currency(user_data[u]["amount"]),
                   description |-> text]))

confirm_transaction(u, text, fault) ==
    IF ~IsAffirmative(text)
    THEN To(u, END, user_data[u], Reply(u, "transaction_cancelled", "main", NoData))
    ELSE IF fault
    THEN To(u, END, user_data[u], Reply(u, "transaction_error", "main", NoData))
    ELSE LET transaction == [id |-> NextId(transactions),
                             amount |-> user_data[u]["amount"],
                             description |-> user_data[u]["description"],
                             is_income |-> user_data[u]["is_income"],
                             user_id |-> u]
         IN  Outcome(END, user_data[u], transactions \cup {transaction}, debts,
                     Reply(u, "transaction_saved", "main",
                           [is_income |-> user_data[u]["is_income"],
                            amount |-> format_currency(user_data[u]["amount"]),
                            description |-> user_data[u]["description"]]))

ShownTx(t) == [id |-> t.id, is_income |-> t.is_income,
               amount |-> format_currency(NumericRead(t.amount)),
               description |-> t.description]

\* session.query(Transaction).filter_by(id=transaction_id).first()
TxById(transaction_id) == {t \in transactions : t.id = transaction_id}

edit_transaction(u, text, fault) ==
    IF CommandArgs(text) = <<>> THEN Same(u, Reply(u, "need_id", "edit", NoData))
    ELSE LET transaction_id == IntOf(Head(CommandArgs(text)))
         IN  IF ~transaction_id.ok THEN Same(u, Reply(u, "id_not_number", "edit", NoData))
             ELSE IF ~transaction_id.fits THEN Same(u, Escaped(u, "OverflowError"))
             ELSE IF fault THEN Same(u, Escaped(u, "OperationalError"))
             ELSE IF TxById(transaction_id.val) # {}
             THEN LET transaction == CHOOSE t \in TxById(transaction_id.val) : TRUE
                  IN  To(u, state[u],
                         DictSet(user_data[u], "edit_transaction_id", transaction_id.val),
                         Reply(u, "edit_prompt", "edit_fields", ShownTx(transaction)))
             ELSE Same(u, Reply(u, "transaction_not_found", "edit", NoData))

delete_transaction(u, text, fault) ==
    IF CommandArgs(text) = <<>> THEN Same(u, Reply(u, "need_id", "edit", NoData))
    ELSE LET transaction_id == IntOf(Head(CommandArgs(text)))
         IN  IF ~transaction_id.ok THEN Same(u, Reply(u, "id_not_number", "edit", NoData))
             ELSE IF ~transaction_id.fits THEN Same(u, Escaped(u, "OverflowError"))
             ELSE IF fault THEN Same(u, Escaped(u, "OperationalError"))
             ELSE IF TxById(transaction_id.val) # {}
             THEN LET transaction == CHOOSE t \in TxById(transaction_id.val) : TRUE
                  IN  Outcome(state[u], user_data[u], transactions \ {transaction}, debts,
                              Reply(u, "transaction_deleted", "edit", ShownTx(transaction)))
             ELSE Same(u, Reply(u, "transaction_not_found", "edit", NoData))

delete_all_transactions(u, fault) ==
    IF fault THEN Same(u, Escaped(u, "OperationalError"))
    ELSE LET count == Cardinality(transactions)
         IN  IF count = 0 THEN Same(u, Reply(u, "nothing_to_delete", "edit", NoData))
             ELSE Outcome(state[u], user_data[u], {}, debts,
                          Reply(u, "all_deleted", "edit", [count |-> count]))

\* debtor_id is what generate_debtor_id returned (one of its possible codes).
\* When every code is taken its loop never ends: the handler does not return,
\* and since the loop never awaits, the bot handles no further update.
process_debtor_name(u, text, fault, debtor_id) ==
    IF IsCancel(text)
    THEN To(u, END, user_data[u], Reply(u, "cancelled", "debtors", NoData))
    ELSE LET named == DictSet(user_data[u], "debtor_name", text)
         IN  IF fault THEN To(u, state[u], named, Escaped(u, "OperationalError"))
             ELSE IF generate_debtor_id = {}
             THEN To(u, state[u], named, Reply(u, "never_returns", "none", NoData))
             ELSE To(u, DEBT_AMOUNT, DictSet(named, "debtor_id", debtor_id),
                     Reply(u, "ask_debt_amount", "cancel",
                           [debtor_name |-> text, debtor_id |-> debtor_id]))

process_debt_amount(u, text) ==
    IF IsCancel(text)
    THEN To(u, END, user_data[u], Reply(u, "cancelled", "debtors", NoData))
    ELSE LET amount == DecimalOf(RemoveCommas(text))
         IN  IF ~amount.ok THEN Same(u, Escaped(u, "InvalidOperation"))
             ELSE IF amount.val <= 0
             THEN To(u, DEBT_AMOUNT, user_data[u], Reply(u, "invalid_number", "cancel", NoData))
             ELSE To(u, DEBT_DESCRIPTION, DictSet(user_data[u], "debt_amount", amount.val),
                     Reply(u, "ask_debt_description", "cancel_skip", NoData))

\* the skip test as it would be if no text were taken for a skip
IsSkipNever(text) == FALSE
\* update.message.text in [the skip button, the skip word, 'skip']: no .lower()
IsSkip(text) == text \in SkipList

process_debt_description(u, text) ==
    IF IsCancel(text)
    THEN To(u, END, user_data[u], Reply(u, "cancelled", "debtors", NoData))
    ELSE LET description == IF IsSkip(text) THEN None ELSE text
         IN  To(u, DEBT_CONFIRM, DictSet(user_data[u], "debt_description", description),
                Reply(u, "confirm_debt", "yesno",
                      [debtor_name |-> user_data[u]["debtor_name"],
                       debtor_id |-> user_data[u]["debtor_id"],
                       amount |-> format_currency(user_data[u]["debt_amount"]),
                       description |-> description]))

\* the INSERT as it would be if debts.debtor_id were not unique=True
NoUniqueConstraint(debtor_id) == FALSE
\* Column(String(3), unique=True): an INSERT of a debtor_id already in the
\* table raises IntegrityError
UniqueViolation(debtor_id) == debtor_id \in existing_ids

\* the confirmation as it would be if the INSERT replaced a row that holds
\* the same debtor_id instead of failing
confirm_debt_replacing(u, text, fault) ==
    IF ~IsAffirmative(text)
    THEN To(u, END, user_data[u], Reply(u, "debt_cancelled", "debtors", NoData))
    ELSE LET debt == [id |-> NextId(debts),
                      debtor_id |-> user_data[u]["debtor_id"],
                      debtor_name |-> user_data[u]["debtor_name"],
                      amount |-> user_data[u]["debt_amount"],
                      description |-> DictGet(user_data[u], "debt_description", None),
                      user_id |-> u]
         IN  IF fault
             THEN To(u, END, user_data[u],
                     Reply(u, "debt_error", "debtors", [logged |-> "OperationalError"]))
             ELSE Outcome(END, user_data[u], transactions,
                          {d \in debts : d.debtor_id # debt.debtor_id} \cup {debt},
                          Reply(u, "debt_saved", "debtors",
                                [debtor_id |-> debt.debtor_id,
                                 debtor_name |-> debt.debtor_name,
                                 amount |-> format_currency(NumericRead(debt.amount)),
                                 description |-> debt.description]))

\* the INSERT fails on a store fault or on the UNIQUE constraint of
\* debts.debtor_id (line 60); "except Exception" logs and reports either
confirm_debt(u, text, fault) ==
    IF ~IsAffirmative(text)
    THEN To(u, END, user_data[u], Reply(u, "debt_cancelled", "debtors", NoData))
    ELSE LET debt == [id |-> NextId(debts),
                      debtor_id |-> user_data[u]["debtor_id"],
                      debtor_name |-> user_data[u]["debtor_name"],
                      amount |-> user_data[u]["debt_amount"],
                      description |-> DictGet(user_data[u], "debt_description", None),
                      user_id |-> u]
         IN  IF fault
             THEN To(u, END, user_data[u],
                     Reply(u, "debt_error", "debtors", [logged |-> "OperationalError"]))
             ELSE IF UniqueViolation(debt.debtor_id)
             THEN To(u, END, user_data[u],
                     Reply(u, "debt_error", "debtors", [logged |-> "IntegrityError"]))
             ELSE Outcome(END, user_data[u], transactions, debts \cup {debt},
                          Reply(u, "debt_saved", "debtors",
                                [debtor_id |-> debt.debtor_id,
                                 debtor_name |-> debt.debtor_name,
                                 amount |-> format_currency(NumericRead(debt.amount)),
                                 description |-> debt.description]))

\* the lookup as it would be without the user_id filter
DebtByCodeAnyUser(debt_id, u) == {d \in debts : d.debtor_id = debt_id}
\* session.query(Debt).filter_by(debtor_id=debt_id, user_id=...).first()
DebtByCode(debt_id, u) == {d \in debts : d.debtor_id = debt_id /\ d.user_id = u}

delete_debt(u, text, fault) ==
    IF IsCancel(text)
    THEN To(u, END, user_data[u], Reply(u, "cancelled", "debtors", NoData))
    ELSE LET debt_id == StrStrip(text)
             found == DebtByCode(debt_id, u)
         IN  IF fault
             THEN To(u, END, user_data[u], Reply(u, "debt_delete_error", "debtors", NoData))
             ELSE IF found # {}
             THEN LET debt == CHOOSE d \in found : TRUE
                  IN  Outcome(END, user_data[u], transactions, debts \ {debt},
                              Reply(u, "debt_deleted", "debtors",
                                    [debtor_id |-> debt_id,
                                     debtor_name |-> debt.debtor_name,
                                     amount |-> format_currency(NumericRead(debt.amount))]))
             ELSE To(u, END, user_data[u], Reply(u, "debt_not_found", "debtors", NoData))

(***************************************************************************)
(* The "cancel" fallback (line 706) is a plain lambda, not a coroutine     *)
(* function.  The Application awaits callback(update, context); the lambda *)
(* returns the int END and awaiting an int raises TypeError, so the        *)
(* conversation state is not updated and nothing is sent.                  *)
(***************************************************************************)
cancel_fallback(u) == Same(u, Escaped(u, "TypeError"))

(***************************************************************************)
(* Dispatch (lines 675-715).  The ConversationHandler is the first handler *)
(* of the group: with no conversation it tries its entry points, in a      *)
(* conversation the handler of the state and then the fallbacks; an update *)
(* it does not take goes to the CommandHandlers added after it.  A handler *)
(* that raises leaves the conversation state as it was.                    *)
(***************************************************************************)
FlowInit == [sent |-> EmptyDict, code |-> <<>>]
\* the text on which the running flow left each of its states, and the
\* debtor code the name step displayed; forgotten when the flow ends
FlowAfter(u, text, o) ==
    LET base == IF state[u] = END THEN FlowInit ELSE flow[u]
    IN  IF o.next = END THEN FlowInit
        ELSE IF o.next = state[u] THEN flow[u]
        ELSE [sent |-> DictSet(base.sent, state[u], text),
              code |-> IF o.reply.kind = "ask_debt_amount"
                       THEN o.reply.data.debtor_id ELSE base.code]

\* the update as it would be applied if the conversation were keyed by the
\* chat alone, one state for all users
ApplyShared(u, o, newflow) ==
    /\ reply.kind # "never_returns"
    /\ Cardinality(o.tx) <= MaxTx
    /\ Cardinality(o.debts) <= MaxDebts
    /\ \A r \in o.tx \cup o.debts : r.id <= MaxId
    /\ state' = [v \in Users |-> o.next]
    /\ user_data' = [user_data EXCEPT ![u] = o.ud]
    /\ transactions' = o.tx
    /\ debts' = o.debts
    /\ reply' = o.reply
    /\ flow' = [flow EXCEPT ![u] = newflow]
    /\ loop' = loop

Apply(u, o, newflow) ==
    /\ reply.kind # "never_returns"
    /\ Cardinality(o.tx) <= MaxTx
    /\ Cardinality(o.debts) <= MaxDebts
    /\ \A r \in o.tx \cup o.debts : r.id <= MaxId
    /\ state' = [state EXCEPT ![u] = o.next]
    /\ user_data' = [user_data EXCEPT ![u] = o.ud]
    /\ transactions' = o.tx
    /\ debts' = o.debts
    /\ reply' = o.reply
    /\ flow' = [flow EXCEPT ![u] = newflow]
    /\ loop' = loop

\* the routing as it would be with no handlers under states=: every text that
\* is no command goes to the entry point
InStateIgnored(u, text, s) == s = END /\ ~IsCommand(text)
\* an update the conversation takes in state s with a text that is no command
InState(u, text, s) == state[u] = s /\ ~IsCommand(text)
\* an update the conversation does not take: a command other than /cancel
\* (and other than /start when no conversation runs)
Global(u, text, cmd) == IsCmd(text, cmd)

Start(u, text, fault) ==
    /\ Global(u, text, CmdStart) /\ ~fault
    /\ Apply(u, start(u), flow[u])

HandleCommand(u, text, fault) ==
    /\ InState(u, text, END)
    /\ fault => text \in {LSummary, LDebtList}
    /\ LET o == handle_command(u, text, fault)
       IN  Apply(u, o, FlowAfter(u, text, o))

ProcessAmount(u, text, fault) ==
    /\ InState(u, text, AMOUNT) /\ ~fault
    /\ LET o == process_amount(u, text)
       IN  Apply(u, o, FlowAfter(u, text, o))

ProcessDescription(u, text, fault) ==
    /\ InState(u, text, DESCRIPTION) /\ ~fault
    /\ LET o == process_description(u, text)
       IN  Apply(u, o, FlowAfter(u, text, o))

ConfirmTransaction(u, text, fault) ==
    /\ InState(u, text, CONFIRM)
    /\ fault => IsAffirmative(text)
    /\ LET o == confirm_transaction(u, text, fault)
       IN  Apply(u, o, FlowAfter(u, text, o))

ProcessDebtorName(u, text, fault) ==
    /\ InState(u, text, DEBTOR_NAME)
    /\ fault => ~IsCancel(text)
    /\ \E debtor_id \in IF IsCancel(text) \/ fault \/ generate_debtor_id = {}
                         THEN {<<>>} ELSE generate_debtor_id :
          LET o == process_debtor_name(u, text, fault, debtor_id)
          IN  Apply(u, o, FlowAfter(u, text, o))

(***************************************************************************)
(* The name step with the loop of generate_debtor_id (lines 93-111) taken  *)
(* one draw at a time.  The handler stores the name, the call reads the    *)
(* codes of the table once and then draws a letter and two digits until    *)
(* the code drawn is not among them.  The loop never awaits: while it runs *)
(* the bot handles no other update.                                        *)
(***************************************************************************)
\* "if new_id not in existing_ids" as it would be if the test always passed
LoopReturnsAny(new_id, ids) == TRUE
\* if new_id not in existing_ids: return new_id
LoopReturns(new_id, ids) == new_id \notin ids

GenerateCall(u, text) ==
    /\ InState(u, text, DEBTOR_NAME)
    /\ ~IsCancel(text)
    /\ loop.pc = "idle"
    /\ reply.kind # "never_returns"
    /\ loop' = [pc |-> "while", user |-> u, text |-> text,
                existing_ids |-> existing_ids, new_id |-> <<>>]
    /\ user_data' = [user_data EXCEPT ![u] = DictSet(@, "debtor_name", text)]
    /\ UNCHANGED <<state, transactions, debts, reply, flow>>

GenerateDraw(new_id) ==
    /\ loop.pc = "while"
    /\ IF LoopReturns(new_id, loop.existing_ids)
       THEN LET u == loop.user
                o == To(u, DEBT_AMOUNT, DictSet(user_data[u], "debtor_id", new_id),
                        Reply(u, "ask_debt_amount", "cancel",
                              [debtor_name |-> loop.text, debtor_id |-> new_id]))
            IN  /\ state' = [state EXCEPT ![u] = o.next]
                /\ user_data' = [user_data EXCEPT ![u] = o.ud]
                /\ reply' = o.reply
                /\ flow' = [flow EXCEPT ![u] = FlowAfter(u, loop.text, o)]
                /\ loop' = LoopIdle
                /\ UNCHANGED <<transactions, debts>>
       ELSE /\ loop' = [loop EXCEPT !.new_id = new_id]
            /\ UNCHANGED <<state, user_data, transactions, debts, reply, flow>>

ProcessDebtAmount(u, text, fault) ==
    /\ InState(u, text, DEBT_AMOUNT) /\ ~fault
    /\ LET o == process_debt_amount(u, text)
       IN  Apply(u, o, FlowAfter(u, text, o))

ProcessDebtDescription(u, text, fault) ==
    /\ InState(u, text, DEBT_DESCRIPTION) /\ ~fault
    /\ LET o == process_debt_description(u, text)
       IN  Apply(u, o, FlowAfter(u, text, o))

ConfirmDebt(u, text, fault) ==
    /\ InState(u, text, DEBT_CONFIRM)
    /\ fault => IsAffirmative(text)
    /\ LET o == confirm_debt(u, text, fault)
       IN  Apply(u, o, FlowAfter(u, text, o))

DeleteDebt(u, text, fault) ==
    /\ InState(u, text, DELETE_DEBT)
    /\ fault => ~IsCancel(text)
    /\ LET o == delete_debt(u, text, fault)
       IN  Apply(u, o, FlowAfter(u, text, o))

CancelFallback(u, text, fault) ==
    /\ state[u] # END /\ Global(u, text, TCancelCmd) /\ ~fault
    /\ Apply(u, cancel_fallback(u), flow[u])

EditTransaction(u, text, fault) ==
    /\ Global(u, text, CmdEditTr)
    /\ fault => /\ CommandArgs(text) # <<>>
                /\ IntOf(Head(CommandArgs(text))).ok
                /\ IntOf(Head(CommandArgs(text))).fits
    /\ Apply(u, edit_transaction(u, text, fault), flow[u])

DeleteTransaction(u, text, fault) ==
    /\ Global(u, text, CmdDelTr)
    /\ fault => /\ CommandArgs(text) # <<>>
                /\ IntOf(Head(CommandArgs(text))).ok
                /\ IntOf(Head(CommandArgs(text))).fits
    /\ Apply(u, delete_transaction(u, text, fault), flow[u])

DeleteAllTransactions(u, text, fault) ==
    /\ Global(u, text, CmdDelAllTr)
    /\ Apply(u, delete_all_transactions(u, fault), flow[u])

DebtList(u, text, fault) ==
    /\ Global(u, text, CmdDebtList)
    /\ Apply(u, debt_list(u, fault), flow[u])

InputsOf == [s \in ActiveStates \cup {END} |-> Inputs(s)]
AllTexts == UNION {InputsOf[s] : s \in ActiveStates \cup {END}}
Next ==
    \E u \in Users, text \in AllTexts, fault \in BOOLEAN :
        /\ text \in InputsOf[state[u]]
        /\ \/ Start(u, text, fault)
           \/ HandleCommand(u, text, fault)
           \/ ProcessAmount(u, text, fault)
           \/ ProcessDescription(u, text, fault)
           \/ ConfirmTransaction(u, text, fault)
           \/ ProcessDebtorName(u, text, fault)
           \/ ProcessDebtAmount(u, text, fault)
           \/ ProcessDebtDescription(u, text, fault)
           \/ ConfirmDebt(u, text, fault)
           \/ DeleteDebt(u, text, fault)
           \/ CancelFallback(u, text, fault)
           \/ EditTransaction(u, text, fault)
           \/ DeleteTransaction(u, text, fault)
           \/ DeleteAllTransactions(u, text, fault)
           \/ DebtList(u, text, fault)

Spec == Init /\ [][Next]_vars

(***************************************************************************)
(* Environments that use a part of the bot, each a restriction of Spec:    *)
(* the users send only the texts of one family of flows, one               *)
(* representative of each kind of text per step.                           *)
(***************************************************************************)
\* the transaction flow, summary and the delete commands; /cancel is sent in
\* every state, the delete commands by a user with no conversation running
TxInputs(s) ==
    {TCancelCmd} \cup
    CASE s = END -> {LIncome, LExpense, LSummary, CmdDelAllTr} \cup
                    {WithArg(CmdDelTr, NatToChars(i)) : i \in 1..MaxTx}
      [] s = AMOUNT -> {TCancelCaps, TCancelButton, TAbc, TZero, T1500}
      [] s = DESCRIPTION -> {TLaghv, TSalary}
      [] s = CONFIRM -> {TYesCaps, TYesButton, TNoButton, TCancelWord}
      [] OTHER -> {}
TxInputsOf == [s \in ActiveStates \cup {END} |-> TxInputs(s)]
TxTexts == UNION {TxInputsOf[s] : s \in ActiveStates \cup {END}}

NextTx ==
    \E u \in Users, text \in TxTexts, fault \in BOOLEAN :
        \/ text \in TxInputsOf[state[u]] /\ HandleCommand(u, text, fault)
        \/ text \in TxInputsOf[state[u]] /\ ProcessAmount(u, text, fault)
        \/ text \in TxInputsOf[state[u]] /\ ProcessDescription(u, text, fault)
        \/ text \in TxInputsOf[state[u]] /\ ConfirmTransaction(u, text, fault)
        \/ text \in TxInputsOf[state[u]] /\ CancelFallback(u, text, fault)
        \/ text \in TxInputsOf[state[u]] /\ DeleteTransaction(u, text, fault)
        \/ text \in TxInputsOf[state[u]] /\ DeleteAllTransactions(u, text, fault)

SpecTx == Init /\ [][NextTx]_vars

\* the debt flows: add a debt, delete a debt, list the debts
DebtInputs(s) ==
    {TCancelCmd, CmdDebtList} \cup
    CASE s = END -> {LAddDebt, LDeleteDebt, LDebtList, LDebtors}
      [] s = DEBTOR_NAME -> {TCancelWord, TAlice}
      [] s = DEBT_AMOUNT -> {TCancelButton, TAbc, TMinus5, T20000}
      [] s = DEBT_DESCRIPTION -> {TCancelButton, TSkipButton}
      [] s = DEBT_CONFIRM -> {TBale, TY, TNoButton}
      [] s = DELETE_DEBT -> {TCancelWord, TAbc} \cup Codes \cup
                            {<<" ">> \o c \o <<" ">> : c \in Codes}
      [] OTHER -> {}
DebtInputsOf == [s \in ActiveStates \cup {END} |-> DebtInputs(s)]
DebtTexts == UNION {DebtInputsOf[s] : s \in ActiveStates \cup {END}}

NextDebt ==
    \E u \in Users, text \in DebtTexts, fault \in BOOLEAN :
        \/ text \in DebtInputsOf[state[u]] /\ HandleCommand(u, text, fault)
        \/ text \in DebtInputsOf[state[u]] /\ ProcessDebtorName(u, text, fault)
        \/ text \in DebtInputsOf[state[u]] /\ ProcessDebtAmount(u, text, fault)
        \/ text \in DebtInputsOf[state[u]] /\ ProcessDebtDescription(u, text, fault)
        \/ text \in DebtInputsOf[state[u]] /\ ConfirmDebt(u, text, fault)
        \/ text \in DebtInputsOf[state[u]] /\ DeleteDebt(u, text, fault)
        \/ text \in DebtInputsOf[state[u]] /\ CancelFallback(u, text, fault)
        \/ text \in DebtInputsOf[state[u]] /\ DebtList(u, text, fault)

SpecDebt == Init /\ [][NextDebt]_vars

\* amounts with a fractional part
TTiny == <<"0", ".", "0", "0", "1">>
TFraction == <<"1", "5", "0", "0", ".", "9", "9", "9">>

(***************************************************************************)
(* Whole flows of both families, run one after another by one user who     *)
(* enters prepared records: an income of 1,500 "salary" or an expense of   *)
(* 0.001 "loan"; a debt of 20000 for "Alice" with no description or a debt *)
(* of 1500.999 for "salary" described "loan".  A flow may be cancelled or  *)
(* declined, so a flow can follow one that left the other record's values. *)
(***************************************************************************)
FlowUsers == {1}
FlowInputs(s) ==
    CASE s = END -> {LIncome, LExpense, LAddDebt}
      [] s = AMOUNT -> {TCancelWord, T1500, TTiny}
      [] s = DESCRIPTION -> {TLaghv, TSalary, TLoan}
      [] s = CONFIRM -> {TYes, TNoButton}
      [] s = DEBTOR_NAME -> {TCancelWord, TAlice, TSalary}
      [] s = DEBT_AMOUNT -> {TCancelButton, T20000, TFraction}
      [] s = DEBT_DESCRIPTION -> {TCancelButton, TSkipButton, TLoan}
      [] s = DEBT_CONFIRM -> {TBale, TNoButton}
      [] OTHER -> {}
FlowInputsOf == [s \in ActiveStates \cup {END} |-> FlowInputs(s)]
FlowTexts == UNION {FlowInputsOf[s] : s \in ActiveStates \cup {END}}
\* the text continues the record the user has begun
Prepared(u, text) ==
    /\ text \in FlowInputsOf[state[u]]
    /\ text \in {T1500, TSalary} /\ state[u] \in {AMOUNT, DESCRIPTION}
       => flow[u].sent[END] = LIncome
    /\ text \in {TTiny, TLoan} /\ state[u] \in {AMOUNT, DESCRIPTION}
       => flow[u].sent[END] = LExpense
    /\ text \in {T20000, TSkipButton} /\ state[u] \in {DEBT_AMOUNT, DEBT_DESCRIPTION}
       => flow[u].sent[DEBTOR_NAME] = TAlice
    /\ text \in {TFraction, TLoan} /\ state[u] \in {DEBT_AMOUNT, DEBT_DESCRIPTION}
       => flow[u].sent[DEBTOR_NAME] = TSalary

NextFlows ==
    \E u \in FlowUsers, text \in FlowTexts, fault \in BOOLEAN :
        \/ Prepared(u, text) /\ HandleCommand(u, text, fault)
        \/ Prepared(u, text) /\ ProcessAmount(u, text, fault)
        \/ Prepared(u, text) /\ ProcessDescription(u, text, fault)
        \/ Prepared(u, text) /\ ConfirmTransaction(u, text, fault)
        \/ Prepared(u, text) /\ ProcessDebtorName(u, text, fault)
        \/ Prepared(u, text) /\ ProcessDebtAmount(u, text, fault)
        \/ Prepared(u, text) /\ ProcessDebtDescription(u, text, fault)
        \/ Prepared(u, text) /\ ConfirmDebt(u, text, fault)

SpecFlows == Init /\ [][NextFlows]_vars

\* the commands that take an id, with every kind of argument: two of them
\* sent in any state, the others, the edit menu's buttons and /del_all_tr
\* with no conversation running; one transaction flow to fill the table.
\* The store does not raise.
CmdInputs(s) ==
    {CmdDelTr, WithArg(CmdEditTr, TAbc)} \cup
    CASE s = END -> {LIncome, LEdit, LDeleteTransaction, LDeleteAll, CmdDelAllTr,
                     CmdEditTr, WithArg(CmdDelTr, TAbc),
                     WithArg(CmdDelTr, TBig), WithArg(CmdEditTr, TBig)} \cup
                    {WithArg(c, NatToChars(i)) : c \in {CmdDelTr, CmdEditTr},
                                                 i \in 1..MaxTx}
      [] s = AMOUNT -> {T1500}
      [] s = DESCRIPTION -> {TSalary}
      [] s = CONFIRM -> {TYes}
      [] OTHER -> {}
CmdInputsOf == [s \in ActiveStates \cup {END} |-> CmdInputs(s)]
CmdTexts == UNION {CmdInputsOf[s] : s \in ActiveStates \cup {END}}

NextCmd ==
    \E u \in Users, text \in CmdTexts, fault \in {FALSE} :
        \/ text \in CmdInputsOf[state[u]] /\ HandleCommand(u, text, fault)
        \/ text \in CmdInputsOf[state[u]] /\ ProcessAmount(u, text, fault)
        \/ text \in CmdInputsOf[state[u]] /\ ProcessDescription(u, text, fault)
        \/ text \in CmdInputsOf[state[u]] /\ ConfirmTransaction(u, text, fault)
        \/ text \in CmdInputsOf[state[u]] /\ EditTransaction(u, text, fault)
        \/ text \in CmdInputsOf[state[u]] /\ DeleteTransaction(u, text, fault)
        \/ text \in CmdInputsOf[state[u]] /\ DeleteAllTransactions(u, text, fault)

SpecCmd == Init /\ [][NextCmd]_vars

\* menu labels sent in the middle of the flows, beside the texts that carry
\* the flows on
RouteInputs(s) ==
    CASE s = END -> {LIncome, LAddDebt, LDeleteDebt}
      [] s = AMOUNT -> {LExpense, T1500}
      [] s = DESCRIPTION -> {LIncome}
      [] s = CONFIRM -> {LAddDebt, TYes}
      [] s = DEBTOR_NAME -> {LAddDebt}
      [] s = DEBT_AMOUNT -> {LIncome, T20000}
      [] s = DEBT_DESCRIPTION -> {LDeleteDebt}
      [] s = DEBT_CONFIRM -> {LAddDebt, TBale}
      [] s = DELETE_DEBT -> {LDeleteDebt}
      [] OTHER -> {}
RouteInputsOf == [s \in ActiveStates \cup {END} |-> RouteInputs(s)]
RouteTexts == UNION {RouteInputsOf[s] : s \in ActiveStates \cup {END}}

NextRoute ==
    \E u \in Users, text \in RouteTexts, fault \in BOOLEAN :
        \/ text \in RouteInputsOf[state[u]] /\ HandleCommand(u, text, fault)
        \/ text \in RouteInputsOf[state[u]] /\ ProcessAmount(u, text, fault)
        \/ text \in RouteInputsOf[state[u]] /\ ProcessDescription(u, text, fault)
        \/ text \in RouteInputsOf[state[u]] /\ ConfirmTransaction(u, text, fault)
        \/ text \in RouteInputsOf[state[u]] /\ ProcessDebtorName(u, text, fault)
        \/ text \in RouteInputsOf[state[u]] /\ ProcessDebtAmount(u, text, fault)
        \/ text \in RouteInputsOf[state[u]] /\ ProcessDebtDescription(u, text, fault)
        \/ text \in RouteInputsOf[state[u]] /\ ConfirmDebt(u, text, fault)
        \/ text \in RouteInputsOf[state[u]] /\ DeleteDebt(u, text, fault)

SpecRoute == Init /\ [][NextRoute]_vars

\* the states a flow can be cancelled in, each sent '/cancel', another
\* cancellation text and, where the flow goes on, a text that carries it on
CancelInputs(s) ==
    CASE s = END -> {LIncome, LAddDebt, LDeleteDebt}
      [] s = AMOUNT -> {TCancelCmd, TCancelCaps, T1500}
      [] s = DESCRIPTION -> {TCancelCmd, TLaghv}
      [] s = DEBTOR_NAME -> {TCancelCmd, TCancelWord, TAlice}
      [] s = DEBT_AMOUNT -> {TCancelCmdUpper, TCancelButton, T20000}
      [] s = DEBT_DESCRIPTION -> {TCancelCmd, TCancelButton}
      [] s = DELETE_DEBT -> {TCancelCmd, TCancelWord}
      [] OTHER -> {}
CancelInputsOf == [s \in ActiveStates \cup {END} |-> CancelInputs(s)]
CancelInputTexts == UNION {CancelInputsOf[s] : s \in ActiveStates \cup {END}}

NextCancel ==
    \E u \in Users, text \in CancelInputTexts, fault \in {FALSE} :
        \/ text \in CancelInputsOf[state[u]] /\ HandleCommand(u, text, fault)
        \/ text \in CancelInputsOf[state[u]] /\ ProcessAmount(u, text, fault)
        \/ text \in CancelInputsOf[state[u]] /\ ProcessDescription(u, text, fault)
        \/ text \in CancelInputsOf[state[u]] /\ ProcessDebtorName(u, text, fault)
        \/ text \in CancelInputsOf[state[u]] /\ ProcessDebtAmount(u, text, fault)
        \/ text \in CancelInputsOf[state[u]] /\ ProcessDebtDescription(u, text, fault)
        \/ text \in CancelInputsOf[state[u]] /\ DeleteDebt(u, text, fault)
        \/ text \in CancelInputsOf[state[u]] /\ CancelFallback(u, text, fault)

SpecCancel == Init /\ [][NextCancel]_vars

\* the add-debt flows of several users, interleaved: user 1 and the others
\* enter different names, amounts and descriptions and confirm or decline
RaceInputs(u, s) ==
    CASE s = END -> {LAddDebt}
      [] s = DEBTOR_NAME -> IF u = 1 THEN {TAlice} ELSE {TSalary}
      [] s = DEBT_AMOUNT -> IF u = 1 THEN {T20000} ELSE {T1500}
      [] s = DEBT_DESCRIPTION -> IF u = 1 THEN {TSkipButton} ELSE {TLoan}
      [] s = DEBT_CONFIRM -> {TBale, TNoButton}
      [] OTHER -> {}
RaceInputsOf == [u \in Users |-> [s \in ActiveStates \cup {END} |-> RaceInputs(u, s)]]
RaceTexts == UNION {RaceInputsOf[u][s] : u \in Users, s \in ActiveStates \cup {END}}

NextRace ==
    \E u \in Users, text \in RaceTexts, fault \in BOOLEAN :
        \/ text \in RaceInputsOf[u][state[u]] /\ HandleCommand(u, text, fault)
        \/ text \in RaceInputsOf[u][state[u]] /\ ProcessDebtorName(u, text, fault)
        \/ text \in RaceInputsOf[u][state[u]] /\ ProcessDebtAmount(u, text, fault)
        \/ text \in RaceInputsOf[u][state[u]] /\ ProcessDebtDescription(u, text, fault)
        \/ text \in RaceInputsOf[u][state[u]] /\ ConfirmDebt(u, text, fault)

SpecRace == Init /\ [][NextRace]_vars

\* the one-shot commands and /start, sent in the middle of the flows: user 1
\* runs the transaction flow, the others the debt flows
OneShotCommands == {CmdDebtList, CmdDelAllTr, WithArg(CmdDelTr, NatToChars(1)),
                    WithArg(CmdEditTr, NatToChars(1))}
FrameInputs(u, s) ==
    IF u = 1
    THEN CASE s = END -> {LIncome}
           [] s = AMOUNT -> {T1500, TCancelWord, TAbc, TCancelCmd} \cup OneShotCommands
           [] s = DESCRIPTION -> {TSalary, CmdStart} \cup OneShotCommands
           [] s = CONFIRM -> {TYes, CmdDelAllTr}
           [] OTHER -> {}
    ELSE CASE s = END -> {LAddDebt, LDeleteDebt}
           [] s = DEBTOR_NAME -> {TAlice, TCancelCmd} \cup OneShotCommands
           [] s = DEBT_AMOUNT -> {T20000, TCancelButton, CmdDebtList}
           [] s = DEBT_DESCRIPTION -> {TSkipButton, CmdDelAllTr}
           [] s = DEBT_CONFIRM -> {TBale, CmdDebtList}
           [] s = DELETE_DEBT -> {TAbc, CmdDebtList, CmdDelAllTr}
           [] OTHER -> {}
FrameInputsOf == [u \in Users |-> [s \in ActiveStates \cup {END} |-> FrameInputs(u, s)]]
FrameTexts == UNION {FrameInputsOf[u][s] : u \in Users, s \in ActiveStates \cup {END}}

NextFrame ==
    \E u \in Users, text \in FrameTexts, fault \in {FALSE} :
        \/ text \in FrameInputsOf[u][state[u]] /\ Start(u, text, fault)
        \/ text \in FrameInputsOf[u][state[u]] /\ HandleCommand(u, text, fault)
        \/ text \in FrameInputsOf[u][state[u]] /\ ProcessAmount(u, text, fault)
        \/ text \in FrameInputsOf[u][state[u]] /\ ProcessDescription(u, text, fault)
        \/ text \in FrameInputsOf[u][state[u]] /\ ConfirmTransaction(u, text, fault)
        \/ text \in FrameInputsOf[u][state[u]] /\ ProcessDebtorName(u, text, fault)
        \/ text \in FrameInputsOf[u][state[u]] /\ ProcessDebtAmount(u, text, fault)
        \/ text \in FrameInputsOf[u][state[u]] /\ ProcessDebtDescription(u, text, fault)
        \/ text \in FrameInputsOf[u][state[u]] /\ ConfirmDebt(u, text, fault)
        \/ text \in FrameInputsOf[u][state[u]] /\ DeleteDebt(u, text, fault)
        \/ text \in FrameInputsOf[u][state[u]] /\ CancelFallback(u, text, fault)
        \/ text \in FrameInputsOf[u][state[u]] /\ EditTransaction(u, text, fault)
        \/ text \in FrameInputsOf[u][state[u]] /\ DeleteTransaction(u, text, fault)
        \/ text \in FrameInputsOf[u][state[u]] /\ DeleteAllTransactions(u, text, fault)
        \/ text \in FrameInputsOf[u][state[u]] /\ DebtList(u, text, fault)

SpecFrame == Init /\ [][NextFrame]_vars

\* the add-debt flows with the loop of generate_debtor_id drawn step by
\* step; no update is handled while a call is running
GenInputs(u, s) ==
    CASE s = END -> {LAddDebt}
      [] s = DEBTOR_NAME -> IF u = 1 THEN {TAlice, TCancelWord} ELSE {TSalary}
      [] s = DEBT_AMOUNT -> IF u = 1 THEN {T20000} ELSE {T1500}
      [] s = DEBT_DESCRIPTION -> IF u = 1 THEN {TSkipButton} ELSE {TLoan}
      [] s = DEBT_CONFIRM -> {TBale, TNoButton}
      [] OTHER -> {}
GenInputsOf == [u \in Users |-> [s \in ActiveStates \cup {END} |-> GenInputs(u, s)]]
GenTexts == UNION {GenInputsOf[u][s] : u \in Users, s \in ActiveStates \cup {END}}

NextGen ==
    \/ \E u \in Users, text \in GenTexts, fault \in {FALSE} :
          /\ loop.pc = "idle"
          /\ text \in GenInputsOf[u][state[u]]
          /\ \/ HandleCommand(u, text, fault)
             \/ IsCancel(text) /\ ProcessDebtorName(u, text, fault)
             \/ GenerateCall(u, text)
             \/ ProcessDebtAmount(u, text, fault)
             \/ ProcessDebtDescription(u, text, fault)
             \/ ConfirmDebt(u, text, fault)
    \/ \E new_id \in Codes : GenerateDraw(new_id)

SpecGen == Init /\ [][NextGen]_vars
\* random.choice and random.randint draw every letter and every digit again
\* and again: no code is left out for ever while the loop runs
SpecGenFair == SpecGen /\ \A new_id \in Codes : WF_vars(GenerateDraw(new_id))

(***************************************************************************)
(* Properties                                                              *)
(***************************************************************************)
\* user u's update with this text is handled, whatever handler takes it
Deliver(u, text, fault) ==
    \/ Start(u, text, fault)
    \/ HandleCommand(u, text, fault)
    \/ ProcessAmount(u, text, fault)
    \/ ProcessDescription(u, text, fault)
    \/ ConfirmTransaction(u, text, fault)
    \/ ProcessDebtorName(u, text, fault)
    \/ ProcessDebtAmount(u, text, fault)
    \/ ProcessDebtDescription(u, text, fault)
    \/ ConfirmDebt(u, text, fault)
    \/ DeleteDebt(u, text, fault)
    \/ CancelFallback(u, text, fault)
    \/ EditTransaction(u, text, fault)
    \/ DeleteTransaction(u, text, fault)
    \/ DeleteAllTransactions(u, text, fault)
    \/ DebtList(u, text, fault)

\* the tokens as the specification lists them, compared case-insensitively
CancelTokens == {TCancelCmd, TCancelWord, TLaghv, TCancelButton}
AffirmativeTokens == {TBale, TYes, TY, TYesButton}
IsCancelToken(text) == StrLower(text) \in CancelTokens
IsAffirmativeToken(text) == StrLower(text) \in AffirmativeTokens
ScratchKeys == {"amount", "description", "is_income", "debtor_name", "debtor_id",
                "debt_amount", "debt_description"}

(* C1: in every non-Idle state a cancellation token ('/cancel', 'cancel',
   the localized word, the cancel button; any case) moves the sender's
   session to Idle in that step and leaves both tables unchanged. *)
C1_CancelReachesIdle ==
    [][\A u \in Users, text \in TxTexts :
         (state[u] # END /\ IsCancelToken(text) /\ Deliver(u, text, FALSE))
         => (state'[u] = END /\ transactions' = transactions /\ debts' = debts)]_vars

(* C2: in AwaitingConfirmation an affirmative token persists exactly one new
   Transaction holding the scratch amount, description and isIncome, owned by
   the sender; any other text persists nothing; either way the session is
   Idle afterwards.  (The store works; its failure is another claim's case.) *)
C2_ConfirmTransaction ==
    [][\A u \in Users, text \in TxTexts :
         ConfirmTransaction(u, text, FALSE)
         => /\ state'[u] = END
            /\ debts' = debts
            /\ IF IsAffirmativeToken(text)
               THEN \E t \in transactions' :
                      /\ t \notin transactions
                      /\ t.id \notin {x.id : x \in transactions}
                      /\ transactions' = transactions \cup {t}
                      /\ t.amount = user_data[u]["amount"]
                      /\ t.description = user_data[u]["description"]
                      /\ t.is_income = user_data[u]["is_income"]
                      /\ t.user_id = u
               ELSE transactions' = transactions]_vars

\* an expense confirmed with "YES": its row is in the table and the session is Idle
C2_Saved ==
    /\ reply.kind = "transaction_saved"
    /\ state[reply.to] = END
    /\ \E t \in transactions :
         /\ t.user_id = reply.to
         /\ t.is_income = FALSE
         /\ t.amount = user_data[reply.to]["amount"]
         /\ t.description = user_data[reply.to]["description"]

(* C3: in AwaitingAmount a text that, commas removed, is no number or is a
   number <= 0 gets the invalid-number reply, the state stays and the scratch
   record is unchanged; a number > 0 is stored and the flow advances.  The
   same for AwaitingDebtAmount. *)
C3_AmountParsing ==
    [][\A u \in Users, text \in TxTexts \cup DebtTexts :
         LET a == DecimalOf(RemoveCommas(text))
         IN  /\ (ProcessAmount(u, text, FALSE) /\ ~IsCancelToken(text))
                => IF a.ok /\ a.val > 0
                   THEN state'[u] = DESCRIPTION /\ user_data'[u]["amount"] = a.val
                   ELSE /\ reply'.kind = "invalid_number" /\ reply'.to = u
                        /\ state'[u] = AMOUNT /\ user_data' = user_data
             /\ (ProcessDebtAmount(u, text, FALSE) /\ ~IsCancelToken(text))
                => IF a.ok /\ a.val > 0
                   THEN state'[u] = DEBT_DESCRIPTION
                        /\ user_data'[u]["debt_amount"] = a.val
                   ELSE /\ reply'.kind = "invalid_number" /\ reply'.to = u
                        /\ state'[u] = DEBT_AMOUNT /\ user_data' = user_data]_vars

(* C4: no two Debt rows ever share a debtor code, however the users' flows
   interleave; a confirmation whose code is already in the table fails and
   leaves the table as it was. *)
C4_UniqueDebtorCode ==
    /\ [](\A d1, d2 \in debts : d1.debtor_id = d2.debtor_id => d1 = d2)
    /\ [][\A u \in Users, text \in DebtTexts :
            (/\ ConfirmDebt(u, text, FALSE)
             /\ IsAffirmativeToken(text)
             /\ user_data[u]["debtor_id"] \in existing_ids)
            => (debts' = debts /\ reply'.kind = "debt_error")]_vars

\* a confirmation was refused because another user's row holds the code
C4_DuplicateRefused ==
    /\ reply.kind = "debt_error"
    /\ reply.data.logged = "IntegrityError"
    /\ \E d \in debts : /\ d.debtor_id = user_data[reply.to]["debtor_id"]
                        /\ d.user_id # reply.to

(* C5: every code generate_debtor_id returns is one lowercase ASCII letter
   followed by two digits, each in 1..9, and is not a debtor code of any row
   in the table at the moment it is generated. *)
C5_GeneratedCode ==
    reply.kind = "ask_debt_amount"
    => LET code == reply.data.debtor_id
       IN  /\ Len(code) = 3
           /\ code[1] \in LowerSet
           /\ code[2] \in DigitSet \ {"0"}
           /\ code[3] \in DigitSet \ {"0"}
           /\ code \notin existing_ids

\* a code was generated while the table already held a row
C5_GeneratedBesideRow ==
    /\ reply.kind = "ask_debt_amount"
    /\ debts # {}
    /\ user_data[reply.to]["debtor_id"] = reply.data.debtor_id

(* C6: /del_tr with the id of a Transaction owned by another user answers
   not-found and leaves the table unchanged. *)
C6_DeleteForeignTransaction ==
    [][\A u \in Users, i \in 1..MaxId :
         (/\ DeleteTransaction(u, WithArg(CmdDelTr, NatToChars(i)), FALSE)
          /\ \E t \in transactions : t.id = i /\ t.user_id # u)
         => (reply'.kind = "transaction_not_found" /\ transactions' = transactions)]_vars

(* C7: /del_all_tr from user U deletes exactly U's Transactions, leaves every
   other user's, and reports how many of U's it deleted. *)
C7_DeleteAllOwn ==
    [][\A u \in Users :
         DeleteAllTransactions(u, CmdDelAllTr, FALSE)
         => /\ transactions' = {t \in transactions : t.user_id # u}
            /\ UserTx(u) # {}
               => (reply'.kind = "all_deleted"
                   /\ reply'.data.count = Cardinality(UserTx(u)))]_vars

(* C8: in AwaitingDebtDeletionCode a text that is no cancellation token is
   trimmed and looked up among the sender's own Debts; a match deletes
   exactly that row, no match (a code of nobody's or of another user's row)
   deletes nothing and answers not-found; the session is Idle either way.
   (The store works; its failure is another claim's case.) *)
C8_DeleteDebtScoped ==
    [][\A u \in Users, text \in DebtTexts :
         (DeleteDebt(u, text, FALSE) /\ ~IsCancelToken(text))
         => LET mine == {d \in debts : d.user_id = u /\ d.debtor_id = StrStrip(text)}
            IN  /\ state'[u] = END
                /\ transactions' = transactions
                /\ IF mine # {}
                   THEN /\ Cardinality(mine) = 1
                        /\ debts' = debts \ mine
                        /\ reply'.kind = "debt_deleted"
                   ELSE /\ debts' = debts
                        /\ reply'.kind = "debt_not_found"]_vars

\* a user's own debt was deleted while another user's row stayed
C8_OwnDebtDeleted ==
    /\ reply.kind = "debt_deleted"
    /\ state[reply.to] = END
    /\ reply.data.debtor_id \notin existing_ids
    /\ \E d \in debts : d.user_id # reply.to

(* C9: from Idle, the add-debt label, a name, a positive amount, the skip
   token and an affirmative token persist exactly one Debt with that name and
   amount, a null description, the code displayed at the name step and the
   sender as owner, and the session ends Idle.  (The store works and the
   displayed code has not been taken by another user in the meantime; those
   cases belong to other claims.) *)
C9_DebtScenario ==
    [][\A u \in Users, text \in DebtTexts :
         (/\ ConfirmDebt(u, text, FALSE)
          /\ IsAffirmativeToken(text)
          /\ DOMAIN flow[u].sent = {END, DEBTOR_NAME, DEBT_AMOUNT, DEBT_DESCRIPTION}
          /\ flow[u].sent[END] = LAddDebt
          /\ DecimalOf(RemoveCommas(flow[u].sent[DEBT_AMOUNT])).val > 0
          /\ flow[u].sent[DEBT_DESCRIPTION] = TSkipButton
          /\ flow[u].code \notin existing_ids)
         => /\ state'[u] = END
            /\ transactions' = transactions
            /\ \E d \in debts' :
                 /\ d \notin debts
                 /\ debts' = debts \cup {d}
                 /\ d.debtor_name = flow[u].sent[DEBTOR_NAME]
                 /\ d.amount = DecimalOf(RemoveCommas(flow[u].sent[DEBT_AMOUNT])).val
                 /\ d.description = None
                 /\ d.debtor_id = flow[u].code
                 /\ d.user_id = u]_vars

\* the scenario has run to its end: the debt of 20,000 for "Alice" is stored
C9_DebtSaved ==
    /\ reply.kind = "debt_saved"
    /\ state[reply.to] = END
    /\ \E d \in debts :
         /\ d.user_id = reply.to
         /\ d.debtor_name = TAlice
         /\ d.amount = 20000000
         /\ d.description = None
         /\ d.debtor_id = reply.data.debtor_id

(* C10: after a cancellation or the completion of a flow the sender's
   scratch record holds none of amount, description, isIncome, debtorName,
   debtorId, debtAmount, debtDescription. *)
C10_ScratchCleared ==
    reply.kind \in {"cancelled", "transaction_cancelled", "transaction_saved",
                    "debt_cancelled", "debt_saved"}
    => DOMAIN user_data[reply.to] \cap ScratchKeys = {}

\* the value a text enters as an amount
Entered(text) == DecimalOf(RemoveCommas(text)).val
SkipTokens == {TSkipButton, <<"rad-kardan">>, TSkipWord}

(* C11: a record persisted at confirmation holds only values of the flow
   being confirmed, whatever flows of the same user were cancelled,
   declined or completed before: the Transaction's amount, description and
   isIncome, and the Debt's name, code, amount and description are those
   entered or issued in this flow, never one left over from an earlier flow. *)
C11_NoLeftover ==
    [][\A u \in Users, text \in FlowTexts :
         /\ (ConfirmTransaction(u, text, FALSE) /\ IsAffirmativeToken(text))
            => \A t \in transactions' \ transactions :
                 /\ t.amount = Entered(flow[u].sent[AMOUNT])
                 /\ t.description = flow[u].sent[DESCRIPTION]
                 /\ t.is_income = (flow[u].sent[END] = LIncome)
         /\ (ConfirmDebt(u, text, FALSE) /\ IsAffirmativeToken(text))
            => \A d \in debts' \ debts :
                 /\ d.debtor_name = flow[u].sent[DEBTOR_NAME]
                 /\ d.debtor_id = flow[u].code
                 /\ d.amount = Entered(flow[u].sent[DEBT_AMOUNT])
                 /\ d.description = IF flow[u].sent[DEBT_DESCRIPTION] \in SkipTokens
                                    THEN None
                                    ELSE flow[u].sent[DEBT_DESCRIPTION]]_vars

\* records of both kinds were confirmed after flows that entered other values
C11_AfterOtherValues ==
    /\ \E t1, t2 \in transactions :
         /\ t1.user_id = t2.user_id /\ t1.id < t2.id
         /\ t1.amount # t2.amount /\ t1.description # t2.description
         /\ t1.is_income # t2.is_income
    /\ \E d1, d2 \in debts :
         /\ d1.user_id = d2.user_id /\ d1.id < d2.id
         /\ d1.debtor_name # d2.debtor_name /\ d1.amount # d2.amount
         /\ d1.description # d2.description

(* C12: in every reachable state every Transaction and every Debt of the
   stores has amount > 0, the amount being the value the Numeric(10, 2)
   column gives back. *)
C12_PositiveAmounts ==
    /\ \A t \in transactions : NumericRead(t.amount) > 0
    /\ \A d \in debts : NumericRead(d.amount) > 0

\* the sum of the amounts the rows give back
RECURSIVE AmountSum(_)
AmountSum(rows) ==
    IF rows = {} THEN 0
    ELSE LET r == CHOOSE x \in rows : TRUE
         IN  NumericRead(r.amount) + AmountSum(rows \ {r})

(* C13, as stated: for every user and every reachable Transaction store the
   summary reports total income = the sum of that user's income amounts,
   total expenses = the sum of that user's expense amounts, and balance =
   income minus expenses (negative when expenses exceed income), over that
   user's Transactions only. *)
C13_SummaryAlwaysTotals ==
    [][\A u \in Users :
         LET income == AmountSum({t \in transactions : t.user_id = u /\ t.is_income})
             expenses == AmountSum({t \in transactions : t.user_id = u /\ ~t.is_income})
         IN  HandleCommand(u, LSummary, FALSE)
             => /\ reply'.to = u
                /\ reply'.kind = "summary"
                /\ reply'.data.total_income = format_currency(income)
                /\ reply'.data.total_expenses = format_currency(expenses)
                /\ reply'.data.balance = format_currency(income - expenses)]_vars

(* C13, corrected: for every user who owns at least one Transaction and
   every reachable Transaction store the summary reports total income = the
   sum of that user's income amounts, total expenses = the sum of that
   user's expense amounts, and balance = income minus expenses (negative
   when expenses exceed income), over that user's Transactions only.  A user
   who owns no Transaction, whatever the other users own, is told that no
   transaction is recorded yet and is given no totals.  In both cases the
   main menu is shown again and the store is left as it was. *)
C13_SummaryTotals ==
    [][\A u \in Users :
         LET own == {t \in transactions : t.user_id = u}
             income == AmountSum({t \in own : t.is_income})
             expenses == AmountSum({t \in own : ~t.is_income})
         IN  HandleCommand(u, LSummary, FALSE)
             => /\ reply'.to = u
                /\ transactions' = transactions
                /\ reply'.menu = "main"
                /\ IF own # {}
                   THEN /\ reply'.kind = "summary"
                        /\ reply'.data.total_income = format_currency(income)
                        /\ reply'.data.total_expenses = format_currency(expenses)
                        /\ reply'.data.balance = format_currency(income - expenses)
                   ELSE /\ reply'.kind = "no_transactions"
                        /\ reply'.data = NoData]_vars

\* a summary with a negative balance, given while the other user has rows too
C13_NegativeBalance ==
    /\ reply.kind = "summary"
    /\ Head(reply.data.balance) = "-"
    /\ \E t \in transactions : t.user_id # reply.to

\* the argument of a /del_tr or /edit_tr text is missing, is no integer, or is
\* an integer that is the id of no stored Transaction
BadIdArgument(text) ==
    \/ CommandArgs(text) = <<>>
    \/ ~AllDigits(Head(CommandArgs(text)))
    \/ \A t \in transactions : NatToChars(t.id) # Head(CommandArgs(text))

(* C14: /del_tr or /edit_tr with a missing argument, a non-integer argument
   or an integer that identifies no stored Transaction replies with an error
   or 'not found', shows the edit menu again, and leaves both tables and the
   sender's conversation state unchanged. *)
C14_BadIdArgument ==
    [][\A u \in Users, text \in CmdTexts :
         (/\ DeleteTransaction(u, text, FALSE) \/ EditTransaction(u, text, FALSE)
          /\ BadIdArgument(text))
         => /\ reply'.kind \in {"need_id", "id_not_number", "transaction_not_found"}
            /\ reply'.menu = "edit"
            /\ transactions' = transactions
            /\ debts' = debts
            /\ state' = state]_vars

(* C15: no handler lets an error escape: in every conversation state, for
   every text (also one that is no number) and every command, the handler
   ends with a reply and a defined next state. *)
C15_NoErrorEscapes == reply.kind # "exception"

(* C16: when the store raises during a create or a delete (confirming a
   transaction or a debt, deleting a debt, /del_tr, /del_all_tr) nothing is
   committed, the user gets a failure message, and the flow ends Idle with
   its menu shown. *)
C16_StoreFault ==
    [][\A u \in Users, text \in TxTexts \cup DebtTexts :
         (\/ ConfirmTransaction(u, text, TRUE)
          \/ ConfirmDebt(u, text, TRUE)
          \/ DeleteDebt(u, text, TRUE)
          \/ DeleteTransaction(u, text, TRUE)
          \/ DeleteAllTransactions(u, text, TRUE))
         => /\ transactions' = transactions
            /\ debts' = debts
            /\ reply'.kind \in {"transaction_error", "debt_error", "debt_delete_error"}
            /\ reply'.menu \in {"main", "debtors", "edit"}
            /\ state'[u] = END]_vars

\* the replies with which the flow or action of a menu label begins
OwnReplies(label) ==
    CASE label = LIncome -> {"ask_income_amount"}
      [] label = LExpense -> {"ask_expense_amount"}
      [] label = LSummary -> {"summary", "no_transactions"}
      [] label = LAddDebt -> {"ask_debtor_name"}
      [] label = LDeleteDebt -> {"ask_debt_code"}
      [] label = LDebtList -> {"debt_list", "no_debts"}
      [] label = LDeleteTransaction ->
            {"need_id", "id_not_number", "transaction_deleted", "transaction_not_found"}
      [] label = LDeleteAll -> {"all_deleted", "nothing_to_delete"}
      [] OTHER -> {"menu"}
OwnMenu(label) ==
    CASE label \in {LIncome, LExpense, LAddDebt, LDeleteDebt} -> "cancel"
      [] label \in {LEdit, LDeleteTransaction, LDeleteAll} -> "edit"
      [] label \in {LDebtors, LDebtList} -> "debtors"
      [] OTHER -> "main"

(* C17: in Idle every label of the menu vocabulary (income, expense,
   summary, edit menu, debtors menu, delete transaction, delete all, list
   debts, add debt, delete debt, back to menu) starts its own flow or runs
   its own action; the edit menu's delete-transaction and delete-all buttons
   lead to the delete action, not to the reply given to an unknown text. *)
C17_MenuVocabulary ==
    [][\A u \in Users,
          label \in {LIncome, LExpense, LSummary, LEdit, LDebtors, LDeleteTransaction,
                     LDeleteAll, LDebtList, LAddDebt, LDeleteDebt, LBack} :
         HandleCommand(u, label, FALSE)
         => /\ reply'.kind \in OwnReplies(label)
            /\ reply'.menu = OwnMenu(label)]_vars

(* C18: for every positive amount entered, the formatted amount of the
   confirmation message equals the formatted amount of the receipt sent
   after persisting, in the transaction flow and in the debt flow, also for
   an amount with a fractional part that the store keeps to two decimals. *)
C18_SameAmountShown ==
    [][\A u \in Users :
         (/\ reply.to = u /\ reply'.to = u
          /\ \/ reply.kind = "confirm_transaction" /\ reply'.kind = "transaction_saved"
             \/ reply.kind = "confirm_debt" /\ reply'.kind = "debt_saved")
         => reply'.data.amount = reply.data.amount]_vars

\* the ids of the user's own Transactions, as a command argument would name them
OwnIds(u) == {NatToChars(t.id) : t \in {x \in transactions : x.user_id = u}}

(* C19: the replies of summary, /edit_tr, /del_tr and /del_all_tr to a user
   depend only on that user's own Transactions: on two stores that agree on
   the user's rows and differ in rows of other users each action replies the
   same.  Taking for the second store the user's rows alone: the reply is
   the one the action gives when the table holds only the user's rows. *)
C19_OwnRowsOnly ==
    [][\A u \in Users :
         /\ \A i \in 1..MaxId :
              LET arg == NatToChars(i)
              IN  /\ EditTransaction(u, WithArg(CmdEditTr, arg), FALSE)
                     => (reply'.kind = IF arg \in OwnIds(u) THEN "edit_prompt"
                                       ELSE "transaction_not_found")
                  /\ DeleteTransaction(u, WithArg(CmdDelTr, arg), FALSE)
                     => (reply'.kind = IF arg \in OwnIds(u) THEN "transaction_deleted"
                                       ELSE "transaction_not_found")
         /\ DeleteAllTransactions(u, CmdDelAllTr, FALSE)
            => IF OwnIds(u) = {} THEN reply'.kind = "nothing_to_delete"
               ELSE /\ reply'.kind = "all_deleted"
                    /\ reply'.data.count = Cardinality(OwnIds(u))
         /\ HandleCommand(u, LSummary, FALSE)
            => (reply'.kind = IF OwnIds(u) = {} THEN "no_transactions" ELSE "summary")]_vars

\* the replies of each state's handler, and the states it can return
StateReplies(s) ==
    CASE s = AMOUNT -> {"cancelled", "invalid_number", "ask_description", "exception"}
      [] s = DESCRIPTION -> {"cancelled", "confirm_transaction"}
      [] s = CONFIRM -> {"transaction_cancelled", "transaction_error", "transaction_saved"}
      [] s = DEBTOR_NAME -> {"cancelled", "ask_debt_amount", "never_returns", "exception"}
      [] s = DEBT_AMOUNT -> {"cancelled", "invalid_number", "ask_debt_description",
                             "exception"}
      [] s = DEBT_DESCRIPTION -> {"cancelled", "confirm_debt"}
      [] s = DEBT_CONFIRM -> {"debt_cancelled", "debt_error", "debt_saved"}
      [] s = DELETE_DEBT -> {"cancelled", "debt_deleted", "debt_not_found",
                             "debt_delete_error"}
      [] OTHER -> {}
StateReturns(s) ==
    CASE s = AMOUNT -> {END, AMOUNT, DESCRIPTION}
      [] s = DESCRIPTION -> {END, CONFIRM}
      [] s = DEBTOR_NAME -> {END, DEBTOR_NAME, DEBT_AMOUNT}
      [] s = DEBT_AMOUNT -> {END, DEBT_AMOUNT, DEBT_DESCRIPTION}
      [] s = DEBT_DESCRIPTION -> {END, DEBT_CONFIRM}
      [] OTHER -> {END}
\* what the menu dispatcher replies when it starts a flow or runs an action
DispatcherReplies ==
    {"ask_income_amount", "ask_expense_amount", "ask_debtor_name", "ask_debt_code",
     "summary", "no_transactions", "debt_list", "no_debts", "menu"}

(* C20: while a user's session is in a non-Idle state, a text that is no
   command, a menu label included, is processed by the handler of the
   current state and never by the menu dispatcher: the reply is one of that
   handler's and none of the dispatcher's, the session goes to a state that
   handler returns, no new flow starts (the kind of the transaction being
   entered is not changed by an income or expense label), and a label sent
   as a description or a name is stored as that description or name. *)
C20_StateHandlerTakesLabels ==
    [][\A u \in Users, text \in MenuLabels \cap RouteTexts, fault \in BOOLEAN :
         (state[u] # END /\ Deliver(u, text, fault))
         => /\ reply'.to = u
            /\ reply'.kind \in StateReplies(state[u])
            /\ reply'.kind \notin DispatcherReplies
            /\ state'[u] \in StateReturns(state[u])
            /\ ("is_income" \in DOMAIN user_data[u]
                => /\ "is_income" \in DOMAIN user_data'[u]
                   /\ user_data'[u]["is_income"] = user_data[u]["is_income"])
            /\ (state[u] = DESCRIPTION => user_data'[u]["description"] = text)
            /\ (state[u] = DEBT_DESCRIPTION
                => user_data'[u]["debt_description"] = text)
            /\ (state[u] = DEBTOR_NAME => user_data'[u]["debtor_name"] = text)
            /\ (state[u] \in {CONFIRM, DEBT_CONFIRM, DELETE_DEBT, AMOUNT, DEBT_AMOUNT}
                => /\ transactions' = transactions
                   /\ debts' = debts)]_vars
\* the income label, sent as the description of a transaction,
\* was stored as the description and the confirmation asked for
C20_LabelAsDescription ==
    \E u \in Users :
        /\ state[u] = CONFIRM
        /\ reply.to = u /\ reply.kind = "confirm_transaction"
        /\ reply.data.description = LIncome
        /\ user_data[u]["description"] = LIncome

\* the menu that owns the flow a state belongs to
OwningMenu(s) == IF s \in {AMOUNT, DESCRIPTION} THEN "main" ELSE "debtors"
CancellableStates == {AMOUNT, DESCRIPTION, DEBTOR_NAME, DEBT_AMOUNT,
                      DEBT_DESCRIPTION, DELETE_DEBT}

(* C21: a cancellation in any recognised form, the /cancel command included,
   re-shows the menu that owns the cancelled flow: the sender is told the
   operation was cancelled, with the main menu when the session was in
   AwaitingAmount or AwaitingDescription and the debtors menu when it was in
   AwaitingDebtorName, AwaitingDebtAmount, AwaitingDebtDescription or
   AwaitingDebtDeletionCode. *)
C21_CancelShowsOwningMenu ==
    [][\A u \in Users, text \in CancelInputTexts :
         (/\ state[u] \in CancellableStates
          /\ IsCancelToken(text)
          /\ Deliver(u, text, FALSE))
         => /\ reply'.to = u
            /\ reply'.kind = "cancelled"
            /\ reply'.menu = OwningMenu(state[u])]_vars

(* C22: an affirmative token in AwaitingDebtConfirmation while the scratch
   debtor code is already the code of a Debt in the store (another user
   confirmed the same code first) adds no Debt, leaves the Debt that holds
   the code with all its fields and its owner, sends the user a failure
   reply and makes the session Idle. *)
C22_DuplicateCodeAtConfirmation ==
    [][\A u \in Users, text \in RaceTexts :
         \A held \in {d \in debts : /\ state[u] = DEBT_CONFIRM
                                    /\ d.debtor_id = user_data[u]["debtor_id"]} :
             (ConfirmDebt(u, text, FALSE) /\ IsAffirmativeToken(text))
             => /\ Cardinality(debts') = Cardinality(debts)
                /\ held \in debts'
                /\ \A d \in debts' : d.debtor_id = held.debtor_id => d = held
                /\ \A d \in debts' : d \in debts
                /\ reply'.to = u
                /\ reply'.kind = "debt_error"
                /\ reply'.menu = "debtors"
                /\ state'[u] = END]_vars
\* a user was refused whose name, amount and description all differ from
\* those of the Debt another user had stored under the same code
C22_OtherUsersDebtKept ==
    /\ reply.kind = "debt_error"
    /\ state[reply.to] = END
    /\ \E d \in debts :
          /\ d.debtor_id = user_data[reply.to]["debtor_id"]
          /\ d.user_id # reply.to
          /\ d.debtor_name # user_data[reply.to]["debtor_name"]
          /\ d.amount # user_data[reply.to]["debt_amount"]
          /\ d.description # user_data[reply.to]["debt_description"]
          /\ reply.data.logged = "IntegrityError"

(* C23: in any interleaving of the debt flows of several users the debtor
   code issued to a user at the name step is still absent from the Debt
   store when that user is at confirmation, so an affirmative confirmation
   with no store fault always persists the Debt. *)
C23_IssuedCodeStillFree ==
    /\ [](\A u \in Users :
             state[u] = DEBT_CONFIRM => user_data[u]["debtor_id"] \notin existing_ids)
    /\ [][\A u \in Users, text \in RaceTexts :
            (ConfirmDebt(u, text, FALSE) /\ IsAffirmativeToken(text))
            => /\ reply'.kind = "debt_saved"
               /\ \E d \in debts' \ debts :
                     /\ d.user_id = u
                     /\ d.debtor_id = user_data[u]["debtor_id"]
                     /\ debts' = debts \cup {d}]_vars

\* the states whose handler ends the flow on every text
ClosingStates == {CONFIRM, DEBT_CONFIRM, DELETE_DEBT}

(* C24: a user's conversation state changes only on that user's own text
   messages or /cancel.  An update of another user leaves it unchanged; the
   one-shot commands /edit_tr, /del_tr, /del_all_tr and /debt_list sent by
   the user in the middle of a flow leave the non-Idle state unchanged; and
   a non-Idle state becomes Idle only in a step that handles a text of that
   user which cancels the flow or completes it. *)
C24_StateChangesOnOwnText ==
    [][\A u \in Users :
         /\ state'[u] # state[u]
            => \A v \in Users \ {u}, text \in FrameTexts : ~Deliver(v, text, FALSE)
         /\ (state[u] # END /\ state'[u] # state[u])
            => \A text \in OneShotCommands : ~Deliver(u, text, FALSE)
         /\ (state[u] # END /\ state'[u] = END)
            => \E text \in FrameTexts :
                  /\ Deliver(u, text, FALSE)
                  /\ ~IsCommand(text) \/ IsCmd(text, TCancelCmd)
                  /\ IsCancelToken(text) \/ state[u] \in ClosingStates]_vars
\* a user in the middle of the transaction flow was answered by /del_all_tr
\* while another user was in the middle of the debt flow
C24_CommandMidFlow ==
    /\ reply.kind = "all_deleted"
    /\ state[reply.to] = DESCRIPTION
    /\ \E v \in Users \ {reply.to} : state[v] = DEBT_CONFIRM

(* C25: generate_debtor_id terminates, under fair sampling of the
   candidates, whenever at least one of the well-formed codes (26*9*9 = 2106
   with the whole alphabet and the digits 1..9) is absent from the Debt
   store, and the code it returns is one of the absent ones; it never
   returns when every code is present, and then the name step of the debt
   flow never completes: the session stays in AwaitingDebtorName and nothing
   is sent. *)
C25_GenerateTerminates ==
    /\ [](Cardinality(LowerSet) * Cardinality(DigitSet \ {"0"})
                                * Cardinality(DigitSet \ {"0"}) = 2106)
    /\ (loop.pc = "while" /\ Codes \ loop.existing_ids # {}) ~> (loop.pc = "idle")
    /\ [][(loop.pc = "while" /\ loop'.pc = "idle")
          => /\ reply'.kind = "ask_debt_amount"
             /\ reply'.data.debtor_id \in Codes \ existing_ids
             /\ reply'.data.debtor_id \in generate_debtor_id
             /\ state'[loop.user] = DEBT_AMOUNT]_vars
    /\ [][(loop.pc = "while" /\ Codes \ loop.existing_ids = {})
          => /\ generate_debtor_id = {}
             /\ loop'.pc = "while"
             /\ state'[loop.user] = DEBTOR_NAME
             /\ state' = state
             /\ reply' = reply]_vars
\* the loop drew a code that is taken while another code is free
C25_CollisionDrawn ==
    /\ loop.pc = "while"
    /\ loop.new_id \in loop.existing_ids
    /\ Codes \ loop.existing_ids # {}
\* the loop is running with every code taken
C25_EveryCodeTaken ==
    /\ loop.pc = "while"
    /\ loop.new_id \in loop.existing_ids
    /\ Codes \ loop.existing_ids = {}

====
